---- MODULE Spec2Model ----
(***************************************************************************)
(* CSV-to-JSON conversion of src/titanic: the whole-file converter         *)
(* (titanic.py) and the chunked / streaming converter                      *)
(* (titanic_bigdata.py, class BigDataCSVConverter).                         *)
(*                                                                         *)
(* A source file is absent, a zero-byte file, or a header line followed by *)
(* data lines.  A data line is a sequence of raw text cells.  The header   *)
(* has two columns, so a line whose cells are all empty is still a data    *)
(* line (",") and is not skipped as a blank line.                          *)
(*                                                                         *)
(* The pandas calls the code makes are modelled by what they do to such a  *)
(* table: per-column type inference in read_csv, DataFrame.where with      *)
(* other=None, astype, iloc, to_dict, and the chunk iterator of            *)
(* read_csv(chunksize=...).                                                *)
(***************************************************************************)
EXTENDS Integers, Sequences, FiniteSets, TLC

\* Largest number of data lines of a source file.
MaxRows == 3

\* Largest chunk_size a converter is constructed with.
MaxChunk == 3

\* File sizes are taken up to this many bytes below and above each size of
\* SizeMarks.
SizeSlack == 4

\* Most rows of a frame handed to _optimize_dtypes on its own.
MaxFrameRows == 2

VARIABLES
    src,         \* the source file: [kind, rows]
    objectCast,  \* the installed pandas: TRUE when where(cond, None) casts a
                 \* float column to object and stores None (pandas < 1.3),
                 \* FALSE when None is taken as the column's NA value and the
                 \* NaN stays (pandas 1.3 and later)
    chunk_size,  \* BigDataCSVConverter.chunk_size
    pc,          \* "idle", "returned", "large" or "stream"
    ret,         \* what the last finished call gave its caller
    lg,          \* the locals of a running _process_large_file, and
                 \* `emitted` the chunk_json of every iteration, `reads` the
                 \* number of chunk reads made
    disk,        \* the writes made to the output directory, in order
    gen,         \* the generator of stream_json_processor and its consumer:
                 \* `out` the rows yielded so far, `calls` the number of
                 \* next() requests made of it
    info,        \* a call of _recommend_chunk_size: its argument and result
    opt,         \* a call of _optimize_dtypes: `df` its argument, `out` its result
    open         \* the file handles the current call has opened and not closed

vars == <<src, objectCast, chunk_size, pc, ret, lg, disk, gen, info, opt, open>>

----------------------------------------------------------------------------
\* The source file

Header == <<"Name", "Age">>

NCols == Len(Header)

Col0Cells == {"x", "1", ""}

Col1Cells == {"16777217", ""}

GoodRows == {<<a, b>> : a \in Col0Cells, b \in Col1Cells}

\* A line with more fields than the header: the tokenizer rejects it.
BadRow == <<"x", "x", "x">>

IsBad(row) == Len(row) > NCols

RECURSIVE SeqsUpTo(_, _)
SeqsUpTo(S, n) ==
    IF n = 0 THEN {<<>>}
    ELSE LET shorter == SeqsUpTo(S, n - 1)
         IN  shorter \cup {Append(s, x) : s \in {t \in shorter : Len(t) = n - 1}, x \in S}

\* The tables of the model.  The first data line fixes the field count the
\* parser expects, so a malformed line is never the first; no operation
\* reads past a malformed line, so it is the last line of its file.
Tables ==
    LET good == SeqsUpTo(GoodRows, MaxRows)
    IN  good \cup {Append(t, BadRow) : t \in {g \in good : Len(g) >= 1 /\ Len(g) < MaxRows}}

Sources ==
    {[kind |-> "absent", rows |-> <<>>], [kind |-> "blank", rows |-> <<>>]}
        \cup {[kind |-> "table", rows |-> t] : t \in Tables}

\* Number of data lines.
RowCount == Len(src.rows)

----------------------------------------------------------------------------
\* Values of a record field

IntV(n) == [t |-> "int", n |-> n, s |-> ""]

FloatV(n) == [t |-> "float", n |-> n, s |-> ""]

StrV(s) == [t |-> "str", n |-> 0, s |-> s]

NaN == [t |-> "nan", n |-> 0, s |-> ""]

None == [t |-> "none", n |-> 0, s |-> ""]

IsNumeric(v) == v.t \in {"int", "float"}

\* Python's == on two field values, with a NaN marker taken as equal to
\* itself: 1 == 1.0, and a number never equals a string or None.
ValueEq(a, b) ==
    IF IsNumeric(a) /\ IsNumeric(b) THEN a.n = b.n ELSE a = b

RecordEq(r1, r2) ==
    /\ Len(r1) = Len(r2)
    /\ \A c \in 1..Len(r1) : r1[c].key = r2[c].key /\ ValueEq(r1[c].val, r2[c].val)

TableEq(t1, t2) ==
    /\ Len(t1) = Len(t2)
    /\ \A i \in 1..Len(t1) : RecordEq(t1[i], t2[i])

----------------------------------------------------------------------------
\* pandas

IsNumber(cell) == cell \in {"1", "16777217"}

ParseNumber(cell) ==
    CASE cell = "1" -> 1
      [] cell = "16777217" -> 16777217
      [] OTHER -> 0

ColumnCells(rows, c) == [i \in 1..Len(rows) |-> rows[i][c]]

\* read_csv's inferred dtype of one column.
InferDtype(cells) ==
    IF Len(cells) = 0 THEN "object"
    ELSE IF \E i \in 1..Len(cells) : cells[i] # "" /\ ~IsNumber(cells[i]) THEN "object"
    ELSE IF \E i \in 1..Len(cells) : cells[i] = "" THEN "float64"
    ELSE "int64"

ParseCell(dtype, cell) ==
    IF cell = "" THEN NaN
    ELSE IF dtype = "object" THEN StrV(cell)
    ELSE IF dtype = "float64" THEN FloatV(ParseNumber(cell))
    ELSE IntV(ParseNumber(cell))

\* The DataFrame read from well-formed data lines: a dtype per column and
\* the parsed values, row by row.
ReadFrame(rows) ==
    LET dt == [c \in 1..NCols |-> InferDtype(ColumnCells(rows, c))]
    IN  [dtypes |-> dt,
         data   |-> [i \in 1..Len(rows) |-> [c \in 1..NCols |-> ParseCell(dt[c], rows[i][c])]]]

\* The exception pd.read_csv(path) raises, "" when it returns a frame.
ReadCsvError(f) ==
    IF f.kind = "absent" THEN "FileNotFoundError"
    ELSE IF f.kind = "blank" THEN "EmptyDataError"
    ELSE IF \E i \in 1..Len(f.rows) : IsBad(f.rows[i]) THEN "ParserError"
    ELSE ""

IsFloatDtype(dtype) == dtype \in {"float64", "float32"}

\* One cell of x.where(pd.notnull(x), None) in a column or Series of dtype.
WhereNone(dtype, v) ==
    IF v # NaN THEN v
    ELSE IF dtype = "object" THEN None
    ELSE IF objectCast THEN None
    ELSE NaN

\* df.where(pd.notnull(df), None)
WhereNotnull(df) ==
    [dtypes |-> [c \in 1..NCols |->
                    IF IsFloatDtype(df.dtypes[c]) /\ objectCast THEN "object" ELSE df.dtypes[c]],
     data   |-> [i \in 1..Len(df.data) |->
                    [c \in 1..NCols |-> WhereNone(df.dtypes[c], df.data[i][c])]]]

\* df.to_dict('records'): one record per row, keys in header order.
ToDictRecords(df) ==
    [i \in 1..Len(df.data) |-> [c \in 1..NCols |-> [key |-> Header[c], val |-> df.data[i][c]]]]

\* The dtype of the Series df.iloc[i]: the common dtype of the columns
\* (object, a float, or else an integer dtype that holds every column,
\* written int64).
RowDtype(df) ==
    IF \E c \in 1..NCols : df.dtypes[c] = "object" THEN "object"
    ELSE IF \E c \in 1..NCols : IsFloatDtype(df.dtypes[c]) THEN "float64"
    ELSE "int64"

\* A value of a row taken into a Series of dtype.
Upcast(dtype, v) ==
    IF dtype = "float64" /\ v.t = "int" THEN FloatV(v.n) ELSE v

\* df.iloc[i] (i counted from 0) as the sequence of the Series' values.
Iloc(df, i) == [c \in 1..NCols |-> Upcast(RowDtype(df), df.data[i + 1][c])]

\* Below this magnitude every whole number is a float32; above it float32
\* keeps 24 significant bits.
Float32Exact == 16777216

Abs(n) == IF n < 0 THEN -n ELSE n

\* Distance between neighbouring float32 values around the whole number n.
RECURSIVE Spacing(_)
Spacing(n) == IF Abs(n) < Float32Exact THEN 1 ELSE 2 * Spacing(Abs(n) \div 2)

\* astype('float32') of a whole number: round to nearest, ties to even.
RoundF32(n) ==
    LET sp == Spacing(n)
        a  == Abs(n)
        q  == a \div sp
        r  == a % sp
        up == IF 2 * r > sp \/ (2 * r = sp /\ q % 2 = 1) THEN q + 1 ELSE q
    IN  IF n < 0 THEN -(up * sp) ELSE up * sp

RECURSIVE Pow2(_)
Pow2(w) == IF w = 0 THEN 1 ELSE 2 * Pow2(w - 1)

\* astype to an integer dtype of w bits wraps modulo 2^w.
WrapUnsigned(n, w) == n % Pow2(w)

WrapSigned(n, w) == ((n + Pow2(w - 1)) % Pow2(w)) - Pow2(w - 1)

\* One value of column.astype(dtype).
AsType(dtype, v) ==
    IF ~IsNumeric(v) THEN v
    ELSE CASE dtype = "uint8"   -> IntV(WrapUnsigned(v.n, 8))
           [] dtype = "uint16"  -> IntV(WrapUnsigned(v.n, 16))
           [] dtype = "int8"    -> IntV(WrapSigned(v.n, 8))
           [] dtype = "int16"   -> IntV(WrapSigned(v.n, 16))
           [] dtype = "float32" -> FloatV(RoundF32(v.n))
           [] OTHER -> v

ColMin(df, c) ==
    CHOOSE m \in {df.data[i][c].n : i \in 1..Len(df.data)} :
        \A i \in 1..Len(df.data) : m <= df.data[i][c].n

ColMax(df, c) ==
    CHOOSE m \in {df.data[i][c].n : i \in 1..Len(df.data)} :
        \A i \in 1..Len(df.data) : m >= df.data[i][c].n

\* _optimize_dtypes with the upper limits of the unsigned types included.
NarrowedDtypeInclusive(df, c) ==
    IF df.dtypes[c] = "int64"
    THEN IF ColMin(df, c) >= 0
         THEN IF ColMax(df, c) <= 256 THEN "uint8"
              ELSE IF ColMax(df, c) <= 65536 THEN "uint16"
              ELSE "int64"
         ELSE IF ColMin(df, c) > -128 /\ ColMax(df, c) < 128 THEN "int8"
              ELSE IF ColMin(df, c) > -32768 /\ ColMax(df, c) < 32768 THEN "int16"
              ELSE "int64"
    ELSE IF df.dtypes[c] = "float64" THEN "float32"
    ELSE df.dtypes[c]

\* The dtype _optimize_dtypes gives column c of df.
NarrowedDtype(df, c) ==
    IF df.dtypes[c] = "int64"
    THEN IF ColMin(df, c) >= 0
         THEN IF ColMax(df, c) < 256 THEN "uint8"
              ELSE IF ColMax(df, c) < 65536 THEN "uint16"
              ELSE "int64"
         ELSE IF ColMin(df, c) > -128 /\ ColMax(df, c) < 128 THEN "int8"
              ELSE IF ColMin(df, c) > -32768 /\ ColMax(df, c) < 32768 THEN "int16"
              ELSE "int64"
    ELSE IF df.dtypes[c] = "float64" THEN "float32"
    ELSE df.dtypes[c]

_optimize_dtypes(df) ==
    LET dt == [c \in 1..NCols |-> NarrowedDtype(df, c)]
    IN  [dtypes |-> dt,
         data   |-> [i \in 1..Len(df.data) |-> [c \in 1..NCols |-> AsType(dt[c], df.data[i][c])]]]

Min(a, b) == IF a < b THEN a ELSE b

\* A chunk iterator that ignores the chunk size and reads every remaining
\* line at once.
ReadChunkWhole(f, cursor, first, size) ==
    LET n    == Len(f.rows)
        rows == SubSeq(f.rows, cursor + 1, n)
    IN  IF cursor >= n
        THEN IF first THEN [status |-> "chunk", rows |-> <<>>]
             ELSE [status |-> "stop", rows |-> <<>>]
        ELSE IF \E i \in 1..Len(rows) : IsBad(rows[i])
        THEN [status |-> "error", rows |-> <<>>]
        ELSE [status |-> "chunk", rows |-> rows]

\* One step of the iterator pd.read_csv(path, chunksize=size) over the data
\* lines of f, of which `cursor` are already read; `first` when no chunk has
\* been read yet.  A file without data lines gives one empty first chunk.
ReadChunk(f, cursor, first, size) ==
    LET n    == Len(f.rows)
        hi   == Min(cursor + size, n)
        rows == SubSeq(f.rows, cursor + 1, hi)
    IN  IF cursor >= n
        THEN IF first THEN [status |-> "chunk", rows |-> <<>>]
             ELSE [status |-> "stop", rows |-> <<>>]
        ELSE IF \E i \in 1..Len(rows) : IsBad(rows[i])
        THEN [status |-> "error", rows |-> <<>>]
        ELSE [status |-> "chunk", rows |-> rows]

\* The exception raised when the chunk iterator is opened, "" when it opens.
OpenError(f) ==
    IF f.kind = "absent" THEN "FileNotFoundError"
    ELSE IF f.kind = "blank" THEN "EmptyDataError"
    ELSE ""

\* for _, row in df.iterrows(): row.to_dict()
IterRecords(df) ==
    [i \in 1..Len(df.data) |->
        [c \in 1..NCols |-> [key |-> Header[c], val |-> Upcast(RowDtype(df), df.data[i][c])]]]

\* json.dump of one field value.
JsonValue(v) ==
    CASE v.t = "int"   -> [j |-> "integer", n |-> v.n, s |-> ""]
      [] v.t = "float" -> [j |-> "real", n |-> v.n, s |-> ""]
      [] v.t = "str"   -> [j |-> "string", n |-> 0, s |-> v.s]
      [] v.t = "none"  -> [j |-> "null", n |-> 0, s |-> ""]
      [] OTHER         -> [j |-> "NaN", n |-> 0, s |-> ""]

\* json.dump(data, f): an array of objects, members in key order.
JsonDump(data) ==
    [i \in 1..Len(data) |->
        [c \in 1..Len(data[i]) |-> [key |-> data[i][c].key, json |-> JsonValue(data[i][c].val)]]]

RECURSIVE Digits(_)
Digits(k) == IF k < 10 THEN <<k>> ELSE Append(Digits(k \div 10), k % 10)

RECURSIVE ZeroPad(_, _)
ZeroPad(ds, width) == IF Len(ds) >= width THEN ds ELSE ZeroPad(<<0>> \o ds, width)

\* f"{output_dir}/chunk_{chunk_count:04d}.json"
ChunkFile(chunk_count) == [stem |-> "chunk_", digits |-> ZeroPad(Digits(chunk_count), 4)]

\* f"{output_dir}/complete_data.json"
CompleteFile == [stem |-> "complete_data", digits |-> <<>>]

----------------------------------------------------------------------------
\* titanic.py

\* The except clauses of csv_to_json_formatter and csv_row_to_json: the
\* exception class the caller sees for an exception raised in the try body.
Translate(exc) ==
    CASE exc = "FileNotFoundError" -> "FileNotFoundError"
      [] exc = "EmptyDataError" -> "ValueError"
      [] OTHER -> "Exception"

NoRecord == <<>>

NoStats == [total_rows |-> 0, chunk_count |-> 0, output_files |-> 0]

\* What a call gives its caller: the exception class it raises ("" when it
\* returns) and the value it returns.
Outcome(op, index, exc, table, rec) ==
    [op |-> op, index |-> index, exc |-> exc, table |-> table, rec |-> rec,
     stats |-> NoStats]

NoOutcome == Outcome("none", 0, "", <<>>, NoRecord)

csv_to_json_formatter(f) ==
    IF ReadCsvError(f) # ""
    THEN Outcome("convertAll", 0, Translate(ReadCsvError(f)), <<>>, NoRecord)
    ELSE Outcome("convertAll", 0, "", ToDictRecords(WhereNotnull(ReadFrame(f.rows))), NoRecord)

csv_row_to_json(f, row_index) ==
    IF ReadCsvError(f) # ""
    THEN Outcome("convertRow", row_index, Translate(ReadCsvError(f)), <<>>, NoRecord)
    ELSE IF row_index < 0 \/ row_index >= Len(f.rows)
    THEN Outcome("convertRow", row_index, Translate("IndexError"), <<>>, NoRecord)
    ELSE LET df  == ReadFrame(f.rows)
             row == Iloc(df, row_index)
         IN  Outcome("convertRow", row_index, "", <<>>,
                     [c \in 1..NCols |->
                        [key |-> Header[c], val |-> WhereNone(RowDtype(df), row[c])]])

----------------------------------------------------------------------------
\* titanic_bigdata.py

\* chunk_json of one chunk of _process_large_file.
ChunkJson(rows) == ToDictRecords(WhereNotnull(_optimize_dtypes(ReadFrame(rows))))

\* The rows stream_json_processor yields for one chunk.
ChunkStream(rows) == IterRecords(WhereNotnull(_optimize_dtypes(ReadFrame(rows))))

\* The dict _process_large_file returns.
Stats(total_rows, chunk_count, split_files) ==
    [total_rows   |-> total_rows,
     chunk_count  |-> chunk_count,
     output_files |-> IF split_files THEN chunk_count ELSE 1]

\* One write of _save_json_chunk; `eof` records whether the chunk iterator
\* was already exhausted when the write was made.
SaveJsonChunk(data, output_file, eof) ==
    [name |-> output_file, body |-> JsonDump(data), eof |-> eof, complete |-> TRUE]

\* Accumulation that also happens when a file is written per chunk.
AccumulateAlways(all_data, chunk_json, split_files) == all_data \o chunk_json

\* all_data after one iteration: with split_files the chunk is written to a
\* file of its own and all_data (None in the code) is left alone, otherwise
\* all_data.extend(chunk_json).
Accumulate(all_data, chunk_json, split_files) ==
    IF split_files THEN all_data ELSE all_data \o chunk_json

Max(a, b) == IF a > b THEN a ELSE b

\* The rows the loop holds at the end of an iteration, before the del of
\* the chunk: those of the chunk and those accumulated.
RowsHeld(all_data, chunk_json) == Max(Len(all_data), Len(chunk_json))

\* The handles left when an exception leaves the chunk loop with the
\* iterator not exhausted: no statement closes the iterator (there is no
\* with block and no finally clause), so its source is closed only if the
\* interpreter finalizes the dropped iterator at once.
Unwound(handles) == {handles, handles \ {"reader"}}

\* The ways a write of _save_json_chunk goes: "" it succeeds, "open" the
\* open of the output file raises, "dump" json.dump or the closing flush
\* raises inside the with block.
WriteFailures == {"", "open", "dump"}

\* What a failed write leaves in the output directory: nothing when the
\* file could not be opened, else the file open(..., 'w') created, without
\* the text.
FailedWrite(output_file, eof, fail) ==
    IF fail = "open" THEN <<>>
    ELSE <<[name |-> output_file, body |-> <<>>, eof |-> eof, complete |-> FALSE]>>

\* The handles _save_json_chunk leaves open: the with statement closes the
\* output file however its body ends, and a failed open gives no handle.
SaveHandles(fail) ==
    LET opened == IF fail = "open" THEN {} ELSE {"artifact"}
    IN  opened \ {"artifact"}

\* The handles pd.read_csv(path) leaves open: it reads inside a with block
\* on the parser, and a parser that fails to start closes what it opened.
ReadCsvHandles(f) ==
    LET opened == IF f.kind = "absent" THEN {} ELSE {"source"}
    IN  opened \ {"source"}

\* The handles of the chunk iterator after pd.read_csv(path, chunksize=n):
\* the source stays open for the iteration unless the open raised.
OpenReader(f) == IF OpenError(f) # "" THEN {} ELSE {"reader"}

\* The chunk iterator's handles after one next(): it closes its source when
\* it raises StopIteration and when the read raises.
ReaderAfter(status, handles) ==
    IF status \in {"stop", "error"} THEN handles \ {"reader"} ELSE handles

\* An except clause that swallows the failure and returns the counts of the
\* chunks read so far.
AbortReturningPartial(exc, l, d) ==
    [ret  |-> [Outcome("convertLarge", 0, "", <<>>, NoRecord) EXCEPT
                  !.stats = Stats(l.total_rows, l.chunk_count, l.split)],
     disk |-> d]

\* An except clause that removes the files written before the failure.
AbortRollingBack(exc, l, d) ==
    [ret  |-> Outcome("convertLarge", 0, exc, <<>>, NoRecord),
     disk |-> <<>>]

\* The except clause of _process_large_file (log, re-raise) for exception
\* exc raised in the loop with locals l and writes d made so far: what the
\* caller gets and what the output directory holds.
Abort(exc, l, d) ==
    [ret  |-> Outcome("convertLarge", 0, exc, <<>>, NoRecord),
     disk |-> d]

\* _recommend_chunk_size with the brackets closed at their upper end.
RecommendInclusive(file_size) ==
    IF file_size <= 10 * (1024 * 1024) THEN 1000
    ELSE IF file_size <= 100 * (1024 * 1024) THEN 5000
    ELSE IF file_size <= 1000 * (1024 * 1024) THEN 10000
    ELSE 50000

\* size_mb = file_size / (1024 * 1024) is a division by a power of two and
\* so exact in floating point: size_mb < t exactly when
\* file_size < t * (1024 * 1024).
_recommend_chunk_size(file_size) ==
    IF file_size < 10 * (1024 * 1024) THEN 1000
    ELSE IF file_size < 100 * (1024 * 1024) THEN 5000
    ELSE IF file_size < 1000 * (1024 * 1024) THEN 10000
    ELSE 50000

----------------------------------------------------------------------------
\* State machine

IdleLarge ==
    [split |-> FALSE, total_rows |-> 0, chunk_count |-> 0, cursor |-> 0,
     all_data |-> <<>>, emitted |-> <<>>, reads |-> 0, peak |-> 0]

IdleGen ==
    [state |-> "none", exc |-> "", cursor |-> 0, chunksRead |-> 0, buf |-> <<>>,
     idx |-> 0, out |-> <<>>, calls |-> 0, earlierPartial |-> FALSE]

NoOpt == [df |-> ReadFrame(<<>>), out |-> ReadFrame(<<>>), done |-> FALSE]

NoInfo == [file_size |-> 0, recommended_chunk_size |-> 0, done |-> FALSE]

Init ==
    /\ src \in Sources
    /\ objectCast \in BOOLEAN
    /\ chunk_size \in 1..MaxChunk
    /\ pc = "idle"
    /\ ret = NoOutcome
    /\ lg = IdleLarge
    /\ disk = <<>>
    /\ gen = IdleGen
    /\ info = NoInfo
    /\ opt = NoOpt
    /\ open = {}

ConvertAll ==
    /\ pc = "idle"
    /\ ret' = csv_to_json_formatter(src)
    /\ open' = ReadCsvHandles(src)
    /\ pc' = "returned"
    /\ UNCHANGED <<src, objectCast, chunk_size, lg, disk, gen, info, opt>>

ConvertRow ==
    /\ pc = "idle"
    /\ \E i \in -1..MaxRows : ret' = csv_row_to_json(src, i)
    /\ open' = ReadCsvHandles(src)
    /\ pc' = "returned"
    /\ UNCHANGED <<src, objectCast, chunk_size, lg, disk, gen, info, opt>>

\* convert_large_csv up to the first iteration of the chunk loop: getsize
\* fails on a missing path, and opening the chunk iterator fails on a
\* zero-byte file.
LargeCall ==
    /\ pc = "idle"
    /\ \E split_files \in BOOLEAN :
          IF OpenError(src) # ""
          THEN /\ ret' = Outcome("convertLarge", 0, OpenError(src), <<>>, NoRecord)
               /\ pc' = "returned"
               /\ lg' = [IdleLarge EXCEPT !.split = split_files]
          ELSE /\ lg' = [IdleLarge EXCEPT !.split = split_files]
               /\ pc' = "large"
               /\ ret' = ret
    /\ open' = OpenReader(src)
    /\ UNCHANGED <<src, objectCast, chunk_size, disk, gen, info, opt>>

\* One iteration of the chunk loop of _process_large_file.
LargeChunk ==
    /\ pc = "large"
    /\ LET r == ReadChunk(src, lg.cursor, lg.chunk_count = 0, chunk_size)
       IN  /\ r.status # "stop"
           /\ IF r.status = "error"
              THEN /\ ret' = Abort("ParserError", lg, disk).ret
                   /\ disk' = Abort("ParserError", lg, disk).disk
                   /\ pc' = "returned"
                   /\ lg' = [lg EXCEPT !.reads = lg.reads + 1]
                   /\ open' = ReaderAfter(r.status, open)
              ELSE LET chunk_count == lg.chunk_count + 1
                       current_rows == Len(r.rows)
                       chunk_json == ChunkJson(r.rows)
                       counted == [lg EXCEPT
                                     !.chunk_count = chunk_count,
                                     !.total_rows = lg.total_rows + current_rows,
                                     !.cursor = lg.cursor + current_rows,
                                     !.reads = lg.reads + 1]
                       output_file == ChunkFile(chunk_count)
                   IN  \E fail \in IF lg.split THEN WriteFailures ELSE {""} :
                          IF fail # ""
                          THEN /\ lg' = [counted EXCEPT
                                          !.peak = Max(lg.peak, RowsHeld(lg.all_data, chunk_json))]
                               /\ ret' = Abort("OSError", counted,
                                               disk \o FailedWrite(output_file, FALSE, fail)).ret
                               /\ disk' = Abort("OSError", counted,
                                                disk \o FailedWrite(output_file, FALSE, fail)).disk
                               /\ pc' = "returned"
                               /\ open' \in Unwound(ReaderAfter(r.status, open) \cup SaveHandles(fail))
                          ELSE /\ lg' = [counted EXCEPT
                                          !.all_data = Accumulate(lg.all_data, chunk_json, lg.split),
                                          !.emitted = Append(lg.emitted, chunk_json),
                                          !.peak = Max(lg.peak,
                                                       RowsHeld(Accumulate(lg.all_data, chunk_json, lg.split),
                                                                chunk_json))]
                               /\ disk' = IF lg.split
                                          THEN Append(disk, SaveJsonChunk(chunk_json, output_file, FALSE))
                                          ELSE disk
                               /\ open' = IF lg.split
                                          THEN ReaderAfter(r.status, open) \cup SaveHandles(fail)
                                          ELSE ReaderAfter(r.status, open)
                               /\ UNCHANGED <<pc, ret>>
    /\ UNCHANGED <<src, objectCast, chunk_size, gen, info, opt>>

\* The chunk iterator is exhausted: the single-file write and the return.
LargeFinish ==
    /\ pc = "large"
    /\ ReadChunk(src, lg.cursor, lg.chunk_count = 0, chunk_size).status = "stop"
    /\ \E fail \in IF ~lg.split /\ lg.all_data # <<>> THEN WriteFailures ELSE {""} :
          IF fail # ""
          THEN /\ ret' = Abort("OSError", lg, disk \o FailedWrite(CompleteFile, TRUE, fail)).ret
               /\ disk' = Abort("OSError", lg, disk \o FailedWrite(CompleteFile, TRUE, fail)).disk
               /\ open' = ReaderAfter("stop", open) \cup SaveHandles(fail)
          ELSE /\ disk' = IF ~lg.split /\ lg.all_data # <<>>
                          THEN Append(disk, SaveJsonChunk(lg.all_data, CompleteFile, TRUE))
                          ELSE disk
               /\ ret' = [Outcome("convertLarge", 0, "", <<>>, NoRecord) EXCEPT
                            !.stats = Stats(lg.total_rows, lg.chunk_count, lg.split)]
               /\ open' = ReaderAfter("stop", open)
    /\ pc' = "returned"
    /\ UNCHANGED <<src, objectCast, chunk_size, lg, gen, info, opt>>

\* An invocation that resumes the position of the generator held before.
StreamInvokeResuming ==
    /\ pc \in {"idle", "stream"}
    /\ gen' = [gen EXCEPT
                 !.state = "created",
                 !.exc = "",
                 !.out = <<>>,
                 !.calls = 0,
                 !.earlierPartial = \/ gen.earlierPartial
                                    \/ gen.state = "suspended" /\ Len(gen.out) < RowCount]
    /\ pc' = "stream"
    /\ open' = {}
    /\ UNCHANGED <<src, objectCast, chunk_size, ret, lg, disk, info, opt>>

\* A call of stream_json_processor: a new generator, of which no line has
\* run yet.  A generator the caller held before is dropped.
StreamInvoke ==
    /\ pc \in {"idle", "stream"}
    /\ gen' = [IdleGen EXCEPT
                 !.state = "created",
                 !.earlierPartial = \/ gen.earlierPartial
                                    \/ gen.state = "suspended" /\ Len(gen.out) < RowCount]
    /\ pc' = "stream"
    /\ open' = {}
    /\ UNCHANGED <<src, objectCast, chunk_size, ret, lg, disk, info, opt>>

\* The consumer asks for the next row: the generator runs to its next yield,
\* to its end, or to an exception.  A generator that has ended or raised
\* is finished: a further request gets StopIteration and no row.
StreamNext ==
    /\ pc = "stream"
    /\ gen.state # "none"
    /\ LET g == [gen EXCEPT !.calls = gen.calls + 1]
       IN  IF gen.state \in {"exhausted", "failed"}
           THEN gen' = gen /\ open' = open
           ELSE IF gen.idx < Len(gen.buf)
           THEN /\ gen' = [g EXCEPT !.idx = gen.idx + 1,
                                    !.out = Append(gen.out, gen.buf[gen.idx + 1])]
                /\ open' = open
           ELSE IF gen.state = "created" /\ OpenError(src) # ""
           THEN /\ gen' = [g EXCEPT !.state = "failed", !.exc = OpenError(src)]
                /\ open' = OpenReader(src)
           ELSE LET r == ReadChunk(src, gen.cursor, gen.chunksRead = 0, chunk_size)
                    reader == IF gen.state = "created" THEN OpenReader(src) ELSE open
                IN  /\ open' = IF r.status = "chunk" /\ r.rows = <<>>
                               THEN ReaderAfter("stop", reader)
                               ELSE ReaderAfter(r.status, reader)
                    /\ CASE r.status = "stop" ->
                           gen' = [g EXCEPT !.state = "exhausted"]
                      [] r.status = "error" ->
                           gen' = [g EXCEPT !.state = "failed", !.exc = "ParserError"]
                      [] r.status = "chunk" /\ r.rows = <<>> ->
                           gen' = [g EXCEPT !.state = "exhausted",
                                            !.chunksRead = gen.chunksRead + 1,
                                            !.buf = <<>>, !.idx = 0]
                      [] OTHER ->
                           LET buf == ChunkStream(r.rows)
                           IN  gen' = [g EXCEPT !.state = "suspended",
                                                !.chunksRead = gen.chunksRead + 1,
                                                !.cursor = gen.cursor + Len(r.rows),
                                                !.buf = buf, !.idx = 1,
                                                !.out = Append(gen.out, buf[1])]
    /\ UNCHANGED <<src, objectCast, chunk_size, pc, ret, lg, disk, info, opt>>

\* The caller drops what it holds; the next call uses a fresh output
\* directory.
Forget ==
    /\ pc \in {"returned", "stream"}
    /\ pc' = "idle"
    /\ ret' = NoOutcome
    /\ lg' = IdleLarge
    /\ disk' = <<>>
    /\ gen' = IdleGen
    /\ open' = {}
    /\ UNCHANGED <<src, objectCast, chunk_size, info, opt>>

Next ==
    \/ ConvertAll
    \/ ConvertRow
    \/ LargeCall
    \/ LargeChunk
    \/ LargeFinish
    \/ StreamInvoke
    \/ StreamNext
    \/ Forget

Spec == Init /\ [][Next]_vars

----------------------------------------------------------------------------
\* _recommend_chunk_size applied to file sizes around the bracket limits

\* Sizes in MB around which file sizes are drawn.
SizeMarks == {0, 5, 10, 50, 100, 500, 1000, 2000}

FileSizes ==
    {m * (1024 * 1024) + d : m \in SizeMarks, d \in -SizeSlack..SizeSlack} \cap Nat

InitInspect ==
    /\ src = [kind |-> "absent", rows |-> <<>>]
    /\ objectCast = FALSE
    /\ chunk_size = 1
    /\ pc = "idle"
    /\ ret = NoOutcome
    /\ lg = IdleLarge
    /\ disk = <<>>
    /\ gen = IdleGen
    /\ \E s \in FileSizes : info = [NoInfo EXCEPT !.file_size = s]
    /\ opt = NoOpt
    /\ open = {}

Recommend ==
    /\ ~info.done
    /\ info' = [info EXCEPT !.recommended_chunk_size = _recommend_chunk_size(info.file_size),
                            !.done = TRUE]
    /\ UNCHANGED <<src, objectCast, chunk_size, pc, ret, lg, disk, gen, opt, open>>

NextInspect == Recommend

SpecInspect == InitInspect /\ [][NextInspect]_vars

----------------------------------------------------------------------------
\* _optimize_dtypes applied to frames whose integers lie around the limits
\* of the narrow types

Edges == {-32769, -32768, -129, -128, -1, 0, 127, 128, 255, 256,
          32767, 32768, 65535, 65536}

\* A line of a frame: an integer column and a floating one.
FrameRows == {<<IntV(e), f>> : e \in Edges, f \in {NaN, FloatV(16777217)}}

Frames ==
    {[dtypes |-> <<"int64", "float64">>, data |-> d] :
        d \in {r \in SeqsUpTo(FrameRows, MaxFrameRows) : Len(r) >= 1}}

InitOptimize ==
    /\ src = [kind |-> "absent", rows |-> <<>>]
    /\ objectCast = FALSE
    /\ chunk_size = 1
    /\ pc = "idle"
    /\ ret = NoOutcome
    /\ lg = IdleLarge
    /\ disk = <<>>
    /\ gen = IdleGen
    /\ info = NoInfo
    /\ \E df \in Frames : opt = [NoOpt EXCEPT !.df = df]
    /\ open = {}

Optimize ==
    /\ ~opt.done
    /\ opt' = [opt EXCEPT !.out = _optimize_dtypes(opt.df), !.done = TRUE]
    /\ UNCHANGED <<src, objectCast, chunk_size, pc, ret, lg, disk, gen, info, open>>

NextOptimize == Optimize

SpecOptimize == InitOptimize /\ [][NextOptimize]_vars

----------------------------------------------------------------------------
\* Properties

Returned(op) == pc = "returned" /\ ret.op = op

Succeeded(op) == Returned(op) /\ ret.exc = ""

\* The source is a well-formed table: pd.read_csv reads it.
Readable == ReadCsvError(src) = ""

CeilDiv(n, d) == (n + d - 1) \div d

RECURSIVE Flatten(_)
Flatten(ss) == IF ss = <<>> THEN <<>> ELSE Head(ss) \o Flatten(Tail(ss))

\* Every field of record rec whose cell in data line `line` is empty is None.
NullWhereMissing(rec, line) ==
    \A c \in 1..NCols : line[c] = "" => rec[c].val = None

\* C1: for a table of N >= 1 rows and every index i with 0 <= i < N,
\* convertRow(path, i) returns a record equal to element i of
\* convertAll(path): same keys in the same order and the same value in
\* every field, the fields of missing cells included.
C1_RowEqualsAllAtIndex ==
    (Returned("convertRow") /\ Readable /\ ret.index >= 0 /\ ret.index < RowCount)
        => /\ ret.exc = ""
           /\ csv_to_json_formatter(src).exc = ""
           /\ RecordEq(ret.rec, csv_to_json_formatter(src).table[ret.index + 1])

\* C2: convertRow on a table of N rows fails with IndexError, a class the
\* caller can tell from the generic Exception of a processing error, when
\* index < 0 or index >= N, and succeeds for every index from 0 to N-1.
C2_IndexOutOfRangeKind ==
    (Returned("convertRow") /\ Readable)
        => IF ret.index < 0 \/ ret.index >= RowCount
           THEN ret.exc = "IndexError"
           ELSE ret.exc = ""

\* C3: in every record produced by convertAll, convertRow, convertLarge or
\* streamRows, a field whose source cell is empty holds None, never a NaN
\* marker, an empty string or 0, in numeric and text columns alike.
C3_MissingIsNull ==
    /\ Succeeded("convertAll") =>
          \A i \in 1..Len(ret.table) : NullWhereMissing(ret.table[i], src.rows[i])
    /\ Succeeded("convertRow") => NullWhereMissing(ret.rec, src.rows[ret.index + 1])
    /\ pc \in {"large", "returned"} =>
          \A i \in 1..Len(Flatten(lg.emitted)) :
              NullWhereMissing(Flatten(lg.emitted)[i], src.rows[i])
    /\ pc = "stream" =>
          \A i \in 1..Len(gen.out) : NullWhereMissing(gen.out[i], src.rows[i])

\* C4: convertAll fails with FileNotFoundError when the path does not
\* exist, with ValueError (empty input) when the file has no data row, a
\* file holding only the header line included, and with the generic
\* Exception on any other parse failure; it returns a table only when the
\* file has at least one data row.
C4_ConvertAllFailureKinds ==
    Returned("convertAll") =>
        CASE src.kind = "absent" -> ret.exc = "FileNotFoundError"
          [] src.kind = "blank" -> ret.exc = "ValueError"
          [] RowCount = 0 -> ret.exc = "ValueError"
          [] ~Readable -> ret.exc = "Exception"
          [] OTHER -> ret.exc = "" /\ Len(ret.table) >= 1

\* C5: a successful convertLarge with chunk_size R over N >= 0 rows
\* processes exactly ceil(N/R) chunks and reports that number; every chunk
\* but the last has R rows and the last has between 1 and R rows.
C5_ChunkCountIsCeil ==
    Succeeded("convertLarge") =>
        /\ ret.stats.chunk_count = CeilDiv(RowCount, chunk_size)
        /\ Len(lg.emitted) = CeilDiv(RowCount, chunk_size)
        /\ \A k \in 1..Len(lg.emitted) :
              IF k < Len(lg.emitted)
              THEN Len(lg.emitted[k]) = chunk_size
              ELSE Len(lg.emitted[k]) >= 1 /\ Len(lg.emitted[k]) <= chunk_size

\* C6: the concatenation, in chunk order, of the records convertLarge emits
\* equals the records convertAll returns for the same file: same length,
\* row order and keys, and the same value in every field, numbers compared
\* by numeric value.
C6_ChunksEqualWholeFile ==
    Succeeded("convertLarge") =>
        /\ csv_to_json_formatter(src).exc = ""
        /\ TableEq(Flatten(lg.emitted), csv_to_json_formatter(src).table)

\* The names of the artifacts written so far.
Written == {disk[i].name : i \in 1..Len(disk)}

\* C7: the Stats of a successful convertLarge are accurate in both
\* split_files modes and for every N >= 0: total_rows is the number of
\* source rows and output_files is the number of artifacts the call wrote.
C7_StatsAccurate ==
    Succeeded("convertLarge") =>
        /\ ret.stats.total_rows = RowCount
        /\ ret.stats.output_files = Cardinality(Written)

\* C8: after a successful convertLarge over C chunks, with split_files the
\* writes are exactly chunk_0001.json .. chunk_<C>.json, once each and in
\* read order, write k holding the records of the k-th chunk; without
\* split_files exactly one write is made, of complete_data.json, after the
\* last chunk has been read, holding the records of all chunks in order.
C8_ArtifactsWritten ==
    Succeeded("convertLarge") =>
        IF lg.split
        THEN /\ Len(disk) = ret.stats.chunk_count
             /\ \A k \in 1..Len(disk) :
                   /\ disk[k].name = ChunkFile(k)
                   /\ disk[k].body = JsonDump(lg.emitted[k])
        ELSE /\ Len(disk) = 1
             /\ disk[1].name = CompleteFile
             /\ disk[1].eof
             /\ disk[1].body = JsonDump(Flatten(lg.emitted))

\* The values a cell can be read as: text, a whole number, a float64 or the
\* float32 nearest to it, and for an empty cell the NaN marker or None.
Renders(val, cell) ==
    IF cell = "" THEN val \in {NaN, None}
    ELSE \/ val = StrV(cell)
         \/ IsNumber(cell) /\ val \in {IntV(ParseNumber(cell)), FloatV(ParseNumber(cell)),
                                        FloatV(RoundF32(ParseNumber(cell)))}

\* Record rec is data line `line`: the header's keys in order, each value
\* read from the line's cell of that column.
IsRowOf(rec, line) ==
    /\ Len(rec) = NCols
    /\ \A c \in 1..NCols : rec[c].key = Header[c] /\ Renders(rec[c].val, line[c])

\* C9: every invocation of streamRows yields the source rows in source
\* order, each once, across chunk boundaries, one row per request, and the
\* request after the N-th row ends it: exhausted, it has yielded exactly
\* the N rows.  An earlier invocation that was consumed only partly changes
\* nothing: the new one starts at row 0.
C9_StreamYieldsAllRowsInOrder ==
    (pc = "stream" /\ Readable) =>
        /\ Len(gen.out) <= RowCount
        /\ \A i \in 1..Len(gen.out) : IsRowOf(gen.out[i], src.rows[i])
        /\ gen.state # "failed"
        /\ gen.state \in {"created", "suspended"} => gen.calls = Len(gen.out)
        /\ gen.state = "exhausted" =>
              Len(gen.out) = RowCount /\ gen.calls = RowCount + 1

\* An invocation run to exhaustion over more than one chunk, made after an
\* earlier invocation was dropped partly consumed.
C9_Witness ==
    /\ pc = "stream"
    /\ gen.state = "exhausted"
    /\ gen.earlierPartial
    /\ gen.chunksRead >= 2
    /\ Len(gen.out) = RowCount

\* C10: streamRows suspends at each row and reads lazily: when the caller
\* holds k >= 1 rows and the generator is suspended, at most ceil(k/R)
\* chunks have been read and no line after the chunk of row k-1 is read.
C10_StreamReadsLazily ==
    (pc = "stream" /\ gen.state = "suspended" /\ Len(gen.out) >= 1) =>
        /\ gen.chunksRead <= CeilDiv(Len(gen.out), chunk_size)
        /\ gen.cursor <= chunk_size * CeilDiv(Len(gen.out), chunk_size)

\* A caller that stops with rows of a second chunk in hand while the file
\* still holds unread lines.
C10_Witness ==
    /\ pc = "stream"
    /\ gen.state = "suspended"
    /\ gen.chunksRead = 2
    /\ gen.cursor < RowCount

\* The data line that is malformed, and the chunk it falls in.
BadLine == CHOOSE i \in 1..RowCount : IsBad(src.rows[i])

FailChunk == CeilDiv(BadLine, chunk_size)

\* C11: no partial-result recovery.  When reading chunk k fails,
\* convertLarge raises the failure to its caller, returns no Stats and no
\* rows, and has made exactly k reads (none repeated); a source that cannot
\* be read never gives a return value.  streamRows has yielded the rows of
\* chunks 1..k-1 when it raises, and no row after.
C11_NoPartialResult ==
    /\ (Returned("convertLarge") /\ ~Readable) =>
          /\ ret.exc # ""
          /\ ret.stats = NoStats
          /\ ret.table = <<>> /\ ret.rec = NoRecord
    /\ (Returned("convertLarge") /\ ret.exc = "ParserError") =>
          /\ lg.reads = FailChunk
          /\ lg.chunk_count = FailChunk - 1
    /\ (pc = "stream" /\ src.kind = "table" /\ ~Readable) =>
          /\ Len(gen.out) <= (FailChunk - 1) * chunk_size
          /\ gen.state # "exhausted"
          /\ gen.state = "failed" =>
                /\ gen.exc = "ParserError"
                /\ Len(gen.out) = (FailChunk - 1) * chunk_size
                /\ \A i \in 1..Len(gen.out) : IsRowOf(gen.out[i], src.rows[i])

\* convertLarge aborted by a read failure after at least one whole chunk.
C11_Witness ==
    /\ Returned("convertLarge")
    /\ ret.exc = "ParserError"
    /\ lg.chunk_count >= 1
    /\ lg.total_rows >= 1

\* C12: with MB = 1024*1024 bytes, the recommended chunk size for a file
\* of s bytes is 1000 when s < 10 MB, 5000 when 10 MB <= s < 100 MB, 10000
\* when 100 MB <= s < 1000 MB and 50000 when s >= 1000 MB; the sizes of
\* exactly 10, 100 and 1000 MB fall in the higher bracket.
C12_RecommendedChunkSize ==
    info.done =>
        info.recommended_chunk_size =
            CASE info.file_size < 10485760 -> 1000
              [] info.file_size >= 10485760 /\ info.file_size < 104857600 -> 5000
              [] info.file_size >= 104857600 /\ info.file_size < 1048576000 -> 10000
              [] OTHER -> 50000

\* The recommendation for a file of exactly 10 MB.
C12_Witness ==
    /\ info.done
    /\ info.file_size = 10485760
    /\ info.recommended_chunk_size = 5000

\* Whether integer n is a value of the integer dtype.
Fits(dtype, n) ==
    CASE dtype = "uint8"  -> 0 <= n /\ n <= 255
      [] dtype = "uint16" -> 0 <= n /\ n <= 65535
      [] dtype = "int8"   -> -128 <= n /\ n <= 127
      [] dtype = "int16"  -> -32768 <= n /\ n <= 32767
      [] dtype = "int64"  -> TRUE
      [] OTHER -> FALSE

IntColumns == {c \in 1..NCols : opt.df.dtypes[c] = "int64"}

\* C13: integer narrowing never changes a value: the type chosen for a
\* 64-bit integer column (uint8, uint16, int8, int16 or int64 unchanged)
\* holds both the column's minimum and its maximum, and every value of the
\* column is the same after narrowing.
C13_NarrowingKeepsValues ==
    opt.done =>
        \A c \in IntColumns :
            /\ Fits(opt.out.dtypes[c], ColMin(opt.df, c))
            /\ Fits(opt.out.dtypes[c], ColMax(opt.df, c))
            /\ Len(opt.out.data) = Len(opt.df.data)
            /\ \A i \in 1..Len(opt.df.data) : opt.out.data[i][c] = opt.df.data[i][c]

\* A column narrowed to uint16 whose maximum is the largest uint16.
C13_Witness ==
    /\ opt.done
    /\ opt.out.dtypes[1] = "uint16"
    /\ ColMax(opt.df, 1) = 65535
    /\ \E i \in 1..Len(opt.out.data) : opt.out.data[i][1] = IntV(65535)

\* The narrowest of uint8, int8, uint16, int16 and int64 that holds every
\* integer from lo to hi: an unsigned type for a column without a negative
\* value, a signed one otherwise.
Narrowest(lo, hi) ==
    IF lo >= 0
    THEN IF hi < 256 THEN "uint8"
         ELSE IF hi < 65536 THEN "uint16"
         ELSE "int64"
    ELSE IF -128 <= lo /\ hi <= 127 THEN "int8"
         ELSE IF -32768 <= lo /\ hi <= 32767 THEN "int16"
         ELSE "int64"

\* C16: integer narrowing picks the smallest width that loses nothing: a
\* 64-bit integer column with minimum lo and maximum hi gets the narrowest
\* integer type whose range contains lo..hi (uint8 when 0 <= lo and
\* hi < 256, int8 when lo < 0, -128 <= lo and hi <= 127, int16 when lo < 0
\* and the column fits in -32768..32767).
C16_NarrowestWidthChosen ==
    opt.done =>
        \A c \in IntColumns :
            opt.out.dtypes[c] = Narrowest(ColMin(opt.df, c), ColMax(opt.df, c))

\* C14: every file handle a conversion call opens is released on every
\* exit path: once convertLarge, convertAll or convertRow has returned or
\* raised, or streamRows has run to exhaustion or to a failure, no handle on
\* the source file or on an output artifact opened by the call is open.
C14_HandlesReleased ==
    /\ pc = "returned" => open = {}
    /\ (pc = "stream" /\ gen.state \in {"exhausted", "failed"}) => open = {}

\* C15 as stated: in convertLarge a chunk is never retained; at every
\* point of a run the converter holds the rows of at most one chunk (at
\* most chunk_size rows), with split_files true or false.
C15_ChunkNeverRetained ==
    pc \in {"large", "returned"} =>
        /\ lg.peak <= chunk_size
        /\ Len(lg.all_data) <= chunk_size

\* C15 amended: with split_files true no chunk is retained and at most
\* chunk_size rows are held at any point; with split_files false the rows
\* of every chunk read so far are retained in all_data until the single
\* file is written, so the rows held grow to the whole table.
C15_RetainedOnlyWithoutSplit ==
    pc \in {"large", "returned"} =>
        /\ lg.split => /\ lg.all_data = <<>>
                       /\ lg.peak <= chunk_size
        /\ ~lg.split => /\ lg.all_data = Flatten(lg.emitted)
                        /\ Len(lg.all_data) = lg.total_rows
                        /\ lg.peak = lg.total_rows

\* A run with split_files false that has read two chunks and holds more
\* rows than one chunk has.
C15_Witness ==
    /\ pc = "large"
    /\ ~lg.split
    /\ lg.chunk_count >= 2
    /\ Len(lg.all_data) > chunk_size

\* The data lines of chunk j.
ChunkLines(j) ==
    SubSeq(src.rows, (j - 1) * chunk_size + 1, Min(j * chunk_size, RowCount))

\* C17: when convertLarge fails reading chunk k, the artifacts of the call
\* are exactly chunk_0001.json .. chunk_<k-1>.json, each complete, when
\* split_files is true (nothing is rolled back), and none when split_files
\* is false (complete_data.json is written only after the last chunk).
C17_ArtifactsAfterFailure ==
    (Returned("convertLarge") /\ ret.exc = "ParserError") =>
        IF lg.split
        THEN /\ Len(disk) = FailChunk - 1
             /\ \A j \in 1..Len(disk) :
                   /\ disk[j].name = ChunkFile(j)
                   /\ disk[j].complete
                   /\ disk[j].body = JsonDump(ChunkJson(ChunkLines(j)))
        ELSE disk = <<>>

\* A split run that failed in a later chunk, with chunk files on disk.
C17_Witness ==
    /\ Returned("convertLarge")
    /\ ret.exc = "ParserError"
    /\ lg.split
    /\ Len(disk) >= 1
    /\ disk[1].name = ChunkFile(1)

====
